---- MODULE Spec2Model ----
(***************************************************************************)
(* Model of awsfabrictasks/ec2/api.py: the wait_for_state polling loop,    *)
(* the instance lookup it drives, and the Ec2LaunchInstance batch          *)
(* operations (confirm_many, run_many_instances,                           *)
(* wait_for_running_state_many).                                           *)
(*                                                                         *)
(* Python strings are sequences of one-character strings; Python lists and *)
(* dicts that are shared by reference live in variables of their own.      *)
(***************************************************************************)
EXTENDS Integers, Sequences, FiniteSets, TLC

VARIABLES
  pc,          \* position of the single control thread
  lists,       \* the list objects: wait_for_state's default argument and a caller-held list
  wfs,         \* the locals of the running wait_for_state call
  queries,     \* directory lookups issued by the running wait_for_state call
  slept,       \* the sleep() calls of the running wait_for_state call, in order
  result,      \* how the last finished top-level operation ended
  many,        \* the frame of wait_for_running_state_many
  launchers,   \* the Ec2LaunchInstance objects of the script
  run,         \* the frame of run_many_instances
  backend,     \* the instances the launch backend has created, with their tags
  confirm_input, \* the line raw_input returned to the last _confirm
  EC2_LAUNCH_CONFIGS, \* awsfab_settings.EC2_LAUNCH_CONFIGS
  nOps,        \* number of top-level operations started
  phase,       \* how far the launch script is: 0 create, 1 confirm, 2 launch, 3 wait
  call,        \* the arguments of a single call of a function that only computes
  ret,         \* what that call returned or raised
  env,         \* fabric.api.env: ec2instances and key_filename
  keypairs     \* awsfab_settings.KEYPAIR_PATH and the key files that exist

vars ==
  <<pc, lists, wfs, queries, slept, result, many, launchers, run,
    backend, confirm_input, EC2_LAUNCH_CONFIGS, nOps, phase, call, ret,
    env, keypairs>>

----------------------------------------------------------------------------
(* Bounds *)

\* top-level operations of a launch script
MaxOps ==
  4

\* wait_for_state calls of a polling script
MaxCalls ==
  2

MaxRepeat ==
  2

MaxReservations ==
  1

MaxInstances ==
  2

MaxLaunchers ==
  2

----------------------------------------------------------------------------
(* Values *)

InstanceStates ==
  {"pending", "running", "stopped"}

TargetStates ==
  {"running", "stopped"}

DEFAULT_REGION ==
  <<"d">>

\* the default value of wait_for_state's sleep_intervals parameter
DefaultSleepIntervals ==
  <<15, 5>>

\* list values a caller passes as sleep_intervals
CallerIntervals ==
  {<<>>, <<3>>, <<2, 7>>}

\* the instance-id arguments given to wait_for_state by a script
InstanceIdArgs ==
  {<<"i", "1">>, <<"e", ":", "i", "1">>}

NoResult ==
  [type |-> "none", op |-> ""]

RECURSIVE sum(_)
sum(s) ==
  IF s = <<>> THEN 0 ELSE s[1] + sum(Tail(s))

RECURSIVE SeqsUpTo(_, _)
SeqsUpTo(S, n) ==
  IF n = 0 THEN {<<>>}
  ELSE LET shorter == SeqsUpTo(S, n - 1)
       IN  shorter \cup {Append(s, x) : s \in shorter, x \in S}

----------------------------------------------------------------------------
(* Instance identifiers *)

HasColon(s) ==
  \E i \in 1..Len(s) : s[i] = ":"

\* FirstColon, splitting on the last ':' instead
FirstColon_last(s) ==
  CHOOSE i \in 1..Len(s) : s[i] = ":" /\ \A j \in (i + 1)..Len(s) : s[j] # ":"

FirstColon(s) ==
  CHOOSE i \in 1..Len(s) : s[i] = ":" /\ \A j \in 1..(i - 1) : s[j] # ":"

_parse_instanceident(s) ==
  IF HasColon(s)
  THEN [region |-> SubSeq(s, 1, FirstColon(s) - 1),
        instanceid |-> SubSeq(s, FirstColon(s) + 1, Len(s))]
  ELSE [region |-> DEFAULT_REGION, instanceid |-> s]

parse_instanceid(s) ==
  _parse_instanceident(s)

\* the name is returned in the second component, as the id is
parse_instancename(s) ==
  _parse_instanceident(s)

\* the compact form region:id of a region and an identifier
Join(region, instanceid) ==
  region \o <<":">> \o instanceid

\* the characters of the identifier strings that are parsed
ParseChars ==
  {"e", "i", ":"}

----------------------------------------------------------------------------
(* The instance directory *)

\* what connect_to_region / get_all_instances can answer to one lookup:
\* no connection, or a list of reservations, each a list of instance states
DirectoryAnswers ==
  {[connection |-> FALSE, reservations |-> <<>>]} \cup
  {[connection |-> TRUE, reservations |-> r] :
     r \in SeqsUpTo(SeqsUpTo(InstanceStates, MaxInstances), MaxReservations)}

\* Ec2InstanceWrapper.get_by_instanceid: the exception raised or the state
\* of the wrapped instance
get_by_instanceid(instanceid, answer) ==
  LET parsed == parse_instanceid(instanceid)
  IN  IF ~answer.connection
      THEN [raised |-> TRUE, region |-> parsed.region,
            instanceid |-> parsed.instanceid,
            exc |-> [type |-> "Ec2RegionConnectionError", op |-> "get_by_instanceid",
                     region |-> parsed.region]]
      ELSE IF Len(answer.reservations) = 0
      THEN [raised |-> TRUE, region |-> parsed.region,
            instanceid |-> parsed.instanceid,
            exc |-> [type |-> "LookupError", op |-> "get_by_instanceid"]]
      ELSE IF Len(answer.reservations[1]) # 1
      THEN [raised |-> TRUE, region |-> parsed.region,
            instanceid |-> parsed.instanceid,
            exc |-> [type |-> "LookupError", op |-> "get_by_instanceid"]]
      ELSE [raised |-> FALSE, region |-> parsed.region,
            instanceid |-> parsed.instanceid,
            state |-> answer.reservations[1][1]]

\* the region arguments of the lookups by tag: None, a name, the empty string
RegionArgs ==
  {[none |-> TRUE], [none |-> FALSE, name |-> <<"e">>],
   [none |-> FALSE, name |-> <<>>]}

\* the instances of all reservations, in order
RECURSIVE insts(_)
insts(reservations) ==
  IF reservations = <<>> THEN <<>>
  ELSE reservations[1] \o insts(Tail(reservations))

\* Ec2InstanceWrapper.get_by_tagvalue: the exception raised or the list of
\* the wrapped instances
get_by_tagvalue(tags, region, answer) ==
  LET region_name == IF region.none THEN DEFAULT_REGION ELSE region.name
      filters == {<<"tag:", k, tags[k]>> : k \in DOMAIN tags}
  IN  IF ~answer.connection
      THEN [raised |-> TRUE, region |-> region_name,
            exc |-> [type |-> "Ec2RegionConnectionError", op |-> "get_by_tagvalue",
                     region |-> region_name]]
      ELSE IF Len(answer.reservations) = 0
      THEN [raised |-> TRUE, region |-> region_name, filters |-> filters,
            exc |-> [type |-> "LookupError", op |-> "get_by_tagvalue"]]
      ELSE [raised |-> FALSE, region |-> region_name, filters |-> filters,
            instances |-> insts(answer.reservations)]

\* Ec2InstanceWrapper.get_exactly_one_by_tagvalue: the exception raised or
\* the one instance
get_exactly_one_by_tagvalue(tags, region, answer) ==
  LET instances == get_by_tagvalue(tags, region, answer)
  IN  IF instances.raised
      THEN instances
      ELSE IF ~(Len(instances.instances) = 1)
      THEN [raised |-> TRUE, region |-> instances.region,
            filters |-> instances.filters,
            exc |-> [type |-> "LookupError", op |-> "get_exactly_one_by_tagvalue"]]
      ELSE [raised |-> FALSE, region |-> instances.region,
            filters |-> instances.filters,
            instance |-> instances.instances[1]]

----------------------------------------------------------------------------
(* Strings *)

LowerChar(c) ==
  CASE c = "Y" -> "y"
    [] c = "N" -> "n"
    [] c = "E" -> "e"
    [] c = "S" -> "s"
    [] OTHER -> c

lower(s) ==
  [i \in 1..Len(s) |-> LowerChar(s[i])]

RECURSIVE lstrip(_)
lstrip(s) ==
  IF s # <<>> /\ s[1] = " " THEN lstrip(Tail(s)) ELSE s

RECURSIVE rstrip(_)
rstrip(s) ==
  IF s # <<>> /\ s[Len(s)] = " " THEN rstrip(SubSeq(s, 1, Len(s) - 1)) ELSE s

strip(s) ==
  rstrip(lstrip(s))

Digits ==
  <<"1", "2", "3", "4", "5", "6", "7", "8", "9">>

----------------------------------------------------------------------------
(* Settings and inputs of a launch script *)

EmptyDict ==
  [k \in {} |-> ""]

\* a registry of two named configurations; the second has a tag named "tags"
\* and no availability zone
LaunchConfigs ==
  (<<"w">> :> [region |-> <<"e">>, ami |-> "ami-w", key_name |-> "kw",
               instance_type |-> "m1", security_groups |-> <<"web">>,
               availability_zone |-> <<"a">>,
               tags |-> ("Name" :> "a" @@ "Env" :> "prod")]) @@
  (<<"b">> :> [region |-> <<"d">>, ami |-> "ami-b", key_name |-> "kb",
               instance_type |-> "t1", security_groups |-> <<"db">>,
               tags |-> ("tags" :> "x" @@ "Env" :> "test")])

\* the extra_tags arguments of Ec2LaunchInstance(...)
ExtraTagChoices ==
  {EmptyDict, "Name" :> "b", "tags" :> "y"}

\* the configname arguments of Ec2LaunchInstance(...); <<>> stands for None
\* and for the empty string, which the code treats alike
ConfignameArgs ==
  {<<>>, <<"w">>, <<"b">>, <<"x">>}

\* the lines an operator types when asked for a configuration name
TypedConfignames ==
  {<<"w">>, <<" ", "b", " ">>, <<"x">>, <<>>}

\* the lines an operator types when asked to confirm
ConfirmInputs ==
  {<<"y">>, <<"Y">>, <<"n">>, <<>>, <<"y", "e", "s">>, <<"Y", "E", "S">>,
   <<" ", "y">>, <<"N">>}

NoInstance ==
  [id |-> <<>>, launched |-> FALSE]

----------------------------------------------------------------------------
(* Frames *)

NoCall ==
  [argument |-> <<>>, instanceid |-> <<>>, region |-> <<>>, state_name |-> "",
   ref |-> "default", given |-> <<>>, last_sleep_repeat |-> 0,
   max_wait_sec |-> 0, index |-> 0, current_state_name |-> "", caller |-> "top",
   entered |-> FALSE]

NoBatch ==
  [active |-> FALSE, started |-> FALSE, i |-> 0, ref |-> "default",
   last_sleep_repeat |-> 0, polled |-> {}, timed_out |-> {},
   elapsed |-> 0, waits |-> <<>>]

NoFnCall ==
  [fn |-> ""]

NoRet ==
  [fn |-> ""]

\* the state of the module when a script starts
InitState ==
  /\ pc = "idle"
  /\ lists = [default |-> DefaultSleepIntervals, arg |-> <<>>]
  /\ wfs = NoCall
  /\ queries = <<>>
  /\ slept = <<>>
  /\ result = NoResult
  /\ many = NoBatch
  /\ launchers = <<>>
  /\ run = [i |-> 0, base |-> 0]
  /\ backend = <<>>
  /\ confirm_input = [asked |-> FALSE, line |-> <<>>]
  /\ EC2_LAUNCH_CONFIGS \in {EmptyDict, LaunchConfigs}
  /\ nOps = 0
  /\ phase = 0

\* fabric's env before any instance is added: no ec2instances key, and
\* key_filename None
EmptyEnv ==
  [has_ec2instances |-> FALSE, ec2instances |-> EmptyDict,
   key_filename |-> [none |-> TRUE, list |-> <<>>]]

\* no KEYPAIR_PATH and no key file
NoKeypairs ==
  [KEYPAIR_PATH |-> <<>>, exists |-> {}]

Init ==
  /\ InitState
  /\ call = NoFnCall
  /\ ret = NoRet
  /\ env = EmptyEnv
  /\ keypairs = NoKeypairs

----------------------------------------------------------------------------
(* wait_for_state *)

\* extend, repeating the first interval instead of the last
extend_first(sleep_intervals, last_sleep_repeat) ==
  sleep_intervals \o
    [x \in 1..last_sleep_repeat |-> sleep_intervals[1]]

\* sleep_intervals.extend([sleep_intervals[-1] for x in xrange(last_sleep_repeat)])
extend(sleep_intervals, last_sleep_repeat) ==
  sleep_intervals \o
    [x \in 1..last_sleep_repeat |-> sleep_intervals[Len(sleep_intervals)]]

WaitForStateError(state_name, max_wait_sec) ==
  [type |-> "WaitForStateError", op |-> "wait_for_state",
   state_name |-> state_name, max_wait_sec |-> max_wait_sec]

\* Finish, with the batch loop going on to the next launcher after a timeout
Finish_continue(r, m) ==
  IF wfs.caller = "many" /\ r.type \in {"ok", "WaitForStateError"}
     /\ m.i < Len(launchers)
  THEN /\ pc' = "many_loop"
       /\ many' = [m EXCEPT !.i = @ + 1]
       /\ result' = result
  ELSE /\ pc' = "idle"
       /\ many' = [m EXCEPT !.active = FALSE]
       /\ result' = r

\* a return or an exception leaves wait_for_state: on to the next launcher of
\* wait_for_running_state_many, or out to the script
Finish(r, m) ==
  IF wfs.caller = "many" /\ r.type = "ok" /\ m.i < Len(launchers)
  THEN /\ pc' = "many_loop"
       /\ many' = [m EXCEPT !.i = @ + 1]
       /\ result' = result
  ELSE /\ pc' = "idle"
       /\ many' = [m EXCEPT !.active = FALSE]
       /\ result' = r

\* lines 273-279: the call up to the head of the polling loop
wait_for_state(argument, state_name, ref, given, last_sleep_repeat, caller, m) ==
  LET parsed == parse_instanceid(argument)
      frame == [argument |-> argument, instanceid |-> parsed.instanceid,
                region |-> parsed.region, state_name |-> state_name,
                ref |-> ref, given |-> given,
                last_sleep_repeat |-> last_sleep_repeat, max_wait_sec |-> 0,
                index |-> 0, current_state_name |-> "", caller |-> caller,
                entered |-> TRUE]
  IN  /\ queries' = <<>>
      /\ slept' = <<>>
      /\ IF given = <<>> /\ last_sleep_repeat > 0
         THEN \* sleep_intervals[-1] on an empty list
              /\ wfs' = frame
              /\ lists' = [lists EXCEPT ![ref] = given]
              /\ pc' = "idle"
              /\ many' = [m EXCEPT !.active = FALSE]
              /\ result' = [type |-> "IndexError", op |-> "wait_for_state"]
         ELSE LET extended == extend(given, last_sleep_repeat)
                  max_wait_sec == sum(extended)
              IN  /\ lists' = [lists EXCEPT ![ref] = extended]
                  /\ wfs' = [frame EXCEPT !.max_wait_sec = max_wait_sec]
                  /\ IF extended = <<>>
                     THEN \* the loop body never runs
                          /\ pc' = "idle"
                          /\ many' = [m EXCEPT !.active = FALSE]
                          /\ result' = WaitForStateError(state_name, max_wait_sec)
                     ELSE /\ pc' = "poll"
                          /\ many' = m
                          /\ result' = NoResult

\* a script calls wait_for_state (wait_for_running_state and
\* wait_for_stopped_state are the calls with state_name fixed)
CallWaitForState ==
  /\ pc = "idle"
  /\ UNCHANGED <<call, ret, env, keypairs>>
  /\ nOps < MaxCalls
  /\ \E argument \in InstanceIdArgs, state_name \in TargetStates,
        ref \in {"default", "arg"}, last_sleep_repeat \in 0..MaxRepeat,
        passed \in CallerIntervals \cup {lists.arg} :
       wait_for_state(argument, state_name, ref,
                      IF ref = "default" THEN lists.default ELSE passed,
                      last_sleep_repeat, "top", many)
  /\ nOps' = nOps + 1
  /\ UNCHANGED <<launchers, run, backend, confirm_input, EC2_LAUNCH_CONFIGS, phase>>

\* Outcome, with every exception of the lookup caught and polled again
Outcome_retry(r, state_name) ==
  IF r.raised THEN "sleep"
  ELSE IF r.state = state_name THEN "return"
  ELSE "sleep"

\* Outcome, with an instance that is not found taken for one in another state
Outcome_notfound_nomatch(r, state_name) ==
  IF r.raised THEN (IF r.exc.type = "LookupError" THEN "sleep" ELSE "raise")
  ELSE IF r.state = state_name THEN "return"
  ELSE "sleep"

\* what the loop body does with the lookup of line 281: the exception leaves
\* the function, the desired state returns, any other state sleeps
Outcome(r, state_name) ==
  IF r.raised THEN "raise"
  ELSE IF r.state = state_name THEN "return"
  ELSE "sleep"

\* sleep_sec, always taking the last interval
sleep_sec_last(sleep_intervals, index) ==
  sleep_intervals[Len(sleep_intervals)]

\* enumerate(sleep_intervals): the item of the iteration with this index
sleep_sec(sleep_intervals, index) ==
  sleep_intervals[index + 1]

\* next_index, with the loop staying at the same item
next_index_same(index) ==
  index

\* enumerate(sleep_intervals): the index of the next iteration
next_index(index) ==
  index + 1

\* has_next, with the loop ending one item early
has_next_short(sleep_intervals, index) ==
  index + 2 < Len(sleep_intervals)

\* enumerate(sleep_intervals) has an item after the one with this index
has_next(sleep_intervals, index) ==
  index + 1 < Len(sleep_intervals)

\* the batch after the wait for its current launcher has ended, having
\* slept the durations s
Waited(m, s) ==
  IF wfs.caller = "many" THEN [m EXCEPT !.waits = Append(@, sum(s))] ELSE m

\* the batch after time.sleep(sec) has returned in one of its waits
Slept(m, sec) ==
  IF wfs.caller = "many" THEN [m EXCEPT !.elapsed = @ + sec] ELSE m

\* lines 281-287: one lookup and the comparison with the desired state
Poll ==
  /\ pc = "poll"
  /\ UNCHANGED <<call, ret, env, keypairs>>
  /\ \E answer \in DirectoryAnswers :
       LET r == get_by_instanceid(wfs.instanceid, answer)
           m == IF wfs.caller = "many"
                THEN [many EXCEPT !.polled = @ \cup {many.i}]
                ELSE many
           log(outcome) == Append(queries, [region |-> r.region,
                                            instanceid |-> r.instanceid,
                                            outcome |-> outcome])
       IN  CASE Outcome(r, wfs.state_name) = "raise" ->
                  /\ queries' = log(r.exc.type)
                  /\ wfs' = wfs
                  /\ Finish(r.exc, Waited(m, slept))
             [] Outcome(r, wfs.state_name) = "return" ->
                  /\ queries' = log("match")
                  /\ wfs' = [wfs EXCEPT !.current_state_name = r.state]
                  /\ Finish([type |-> "ok", op |-> "wait_for_state"],
                            Waited(m, slept))
             [] Outcome(r, wfs.state_name) = "sleep" ->
                  /\ queries' = log(IF r.raised THEN r.exc.type ELSE "nomatch")
                  /\ wfs' = [wfs EXCEPT !.current_state_name =
                                IF r.raised THEN @ ELSE r.state]
                  /\ pc' = "sleep"
                  /\ many' = m
                  /\ result' = result
  /\ UNCHANGED <<lists, slept, launchers, run, backend, confirm_input,
                 EC2_LAUNCH_CONFIGS, nOps, phase>>

\* line 288, then the next iteration or the raise of line 289
Sleep ==
  /\ pc = "sleep"
  /\ UNCHANGED <<call, ret, env, keypairs>>
  /\ slept' = Append(slept, sleep_sec(lists[wfs.ref], wfs.index))
  /\ IF has_next(lists[wfs.ref], wfs.index)
     THEN /\ wfs' = [wfs EXCEPT !.index = next_index(@)]
          /\ pc' = "poll"
          /\ many' = Slept(many, sleep_sec(lists[wfs.ref], wfs.index))
          /\ result' = result
     ELSE /\ wfs' = wfs
          /\ Finish(WaitForStateError(wfs.state_name, wfs.max_wait_sec),
                    Waited(Slept(IF wfs.caller = "many"
                                 THEN [many EXCEPT !.timed_out = @ \cup {many.i}]
                                 ELSE many,
                                 sleep_sec(lists[wfs.ref], wfs.index)),
                           slept'))
  /\ UNCHANGED <<lists, queries, launchers, run, backend, confirm_input,
                 EC2_LAUNCH_CONFIGS, nOps, phase>>

----------------------------------------------------------------------------
(* Ec2LaunchInstance *)

\* the locals of the calls that have returned are gone when the script makes
\* its next call
Discard ==
  /\ wfs' = NoCall
  /\ queries' = <<>>
  /\ slept' = <<>>
  /\ many' = NoBatch

\* fabric.api.abort ends the script
SystemExit(op) ==
  [type |-> "SystemExit", op |-> op]

\* _ask_for_configname: raw_input('Type name of config: ').strip()
_ask_for_configname(typed) ==
  strip(typed)

\* the name create_config_ask_if_none hands to _configure
create_config_ask_if_none(configname, typed) ==
  IF configname # <<>> THEN configname ELSE _ask_for_configname(typed)

\* _configure, taking some registered configuration for an unknown name
_configure_fallback(configname) ==
  LET known == IF configname \in DOMAIN EC2_LAUNCH_CONFIGS THEN configname
               ELSE CHOOSE n \in DOMAIN EC2_LAUNCH_CONFIGS : TRUE
      conf == EC2_LAUNCH_CONFIGS[known]
      kw == [key_name |-> conf.key_name,
             instance_type |-> conf.instance_type,
             security_groups |-> conf.security_groups]
  IN  [aborted |-> FALSE, conf |-> conf,
       kw |-> IF "availability_zone" \in DOMAIN conf
              THEN kw @@ ("placement" :> conf.region \o conf.availability_zone)
              ELSE kw]

\* Ec2LaunchInstance._configure: abort, or the conf and kw attributes
_configure(configname) ==
  IF configname \notin DOMAIN EC2_LAUNCH_CONFIGS
  THEN [aborted |-> TRUE]
  ELSE LET conf == EC2_LAUNCH_CONFIGS[configname]
           kw == [key_name |-> conf.key_name,
                  instance_type |-> conf.instance_type,
                  security_groups |-> conf.security_groups]
       IN  [aborted |-> FALSE, conf |-> conf,
            kw |-> IF "availability_zone" \in DOMAIN conf
                   THEN kw @@ ("placement" :> conf.region \o conf.availability_zone)
                   ELSE kw]

\* Ec2LaunchInstance.__init__
NewLauncher ==
  /\ pc = "idle"
  /\ UNCHANGED <<call, ret, env, keypairs>>
  /\ nOps < MaxOps
  /\ phase <= 0
  /\ phase' = 0
  /\ Len(launchers) < MaxLaunchers
  /\ \E extra_tags \in ExtraTagChoices, configname \in ConfignameArgs,
        typed \in TypedConfignames :
       IF DOMAIN EC2_LAUNCH_CONFIGS = {}
       THEN /\ pc' = "aborted"
            /\ result' = [type |-> "SystemExit", op |-> "__init__",
                          configname |-> configname, asked |-> FALSE]
            /\ launchers' = launchers
       ELSE LET name == create_config_ask_if_none(configname, typed)
                c == _configure(name)
            IN  IF c.aborted
                THEN /\ pc' = "aborted"
                     /\ result' = [type |-> "SystemExit", op |-> "_configure",
                                   configname |-> name,
                                   asked |-> (configname = <<>>)]
                     /\ launchers' = launchers
                ELSE /\ pc' = "idle"
                     /\ result' = [type |-> "ok", op |-> "__init__",
                                   configname |-> name,
                                   asked |-> (configname = <<>>)]
                     /\ launchers' = Append(launchers,
                          [extra_tags |-> extra_tags, conf |-> c.conf,
                           kw |-> c.kw, instance |-> NoInstance])
  /\ nOps' = nOps + 1
  /\ Discard
  /\ UNCHANGED <<lists, run, backend, confirm_input, EC2_LAUNCH_CONFIGS>>

\* get_all_tags, with the configuration's tags winning over the extra tags
get_all_tags_conf_wins(launcher) ==
  [k \in DOMAIN launcher.conf.tags \cup DOMAIN launcher.extra_tags |->
     IF k \in DOMAIN launcher.conf.tags
     THEN launcher.conf.tags[k]
     ELSE launcher.extra_tags[k]]

get_all_tags(launcher) ==
  [k \in DOMAIN launcher.conf.tags \cup DOMAIN launcher.extra_tags |->
     IF k \in DOMAIN launcher.extra_tags
     THEN launcher.extra_tags[k]
     ELSE launcher.conf.tags[k]]

\* _confirm, accepting every answer that starts with y
_confirm_prefix(line) ==
  ~(lower(line) = <<>> \/ lower(line)[1] # "y")

\* Ec2LaunchInstance._confirm: TRUE when the answer lets the script go on
_confirm(line) ==
  ~(lower(line) # <<"y">>)

\* Ec2LaunchInstance.confirm_many(launchers)
ConfirmMany ==
  /\ pc = "idle"
  /\ UNCHANGED <<call, ret, env, keypairs>>
  /\ nOps < MaxOps
  /\ phase <= 1
  /\ phase' = 1
  /\ \E line \in ConfirmInputs :
       /\ confirm_input' = [asked |-> TRUE, line |-> line]
       /\ IF _confirm(line)
          THEN /\ pc' = "idle"
               /\ result' = [type |-> "ok", op |-> "confirm_many"]
          ELSE /\ pc' = "aborted"
               /\ result' = SystemExit("_confirm")
  /\ nOps' = nOps + 1
  /\ Discard
  /\ UNCHANGED <<lists, launchers, run, backend, EC2_LAUNCH_CONFIGS>>

\* Ec2LaunchInstance.run_many_instances(launchers), up to the first run_instance
RunMany ==
  /\ pc = "idle"
  /\ UNCHANGED <<call, ret, env, keypairs>>
  /\ nOps < MaxOps
  /\ phase <= 2
  /\ phase' = 2
  /\ IF launchers = <<>>
     THEN /\ pc' = "idle"
          /\ result' = [type |-> "ok", op |-> "run_many_instances"]
          /\ run' = [i |-> 0, base |-> Len(backend)]
     ELSE /\ pc' = "run_loop"
          /\ result' = NoResult
          /\ run' = [i |-> 1, base |-> Len(backend)]
  /\ nOps' = nOps + 1
  /\ Discard
  /\ UNCHANGED <<lists, launchers, backend, confirm_input, EC2_LAUNCH_CONFIGS>>

\* the id the backend gives to the n-th instance it creates
InstanceId(n) ==
  <<"i", Digits[n]>>

\* the tags _add_tags sends to the instance
_add_tags(launcher) ==
  IF "tags" \in DOMAIN get_all_tags(launcher)
  THEN launcher.conf.tags
  ELSE EmptyDict

\* RunFailure, with run_many_instances going on to the next launcher
RunFailure_skip(type) ==
  /\ pc' = IF run.i < Len(launchers) THEN "run_loop" ELSE "idle"
  /\ result' = [type |-> type, op |-> "run_instance", i |-> run.i]
  /\ run' = IF run.i < Len(launchers) THEN [run EXCEPT !.i = @ + 1] ELSE run

\* an exception raised in run_instance leaves run_many_instances
RunFailure(type) ==
  /\ pc' = "idle"
  /\ result' = [type |-> type, op |-> "run_instance", i |-> run.i]
  /\ run' = run

\* Ec2LaunchInstance.run_instance for the launcher run_many_instances is at
RunInstance ==
  /\ pc = "run_loop"
  /\ UNCHANGED <<call, ret, env, keypairs>>
  /\ LET launcher == launchers[run.i]
     IN  \/ \* connect_to_region returned None
            /\ RunFailure("AttributeError")
            /\ UNCHANGED <<launchers, backend>>
         \/ \* run_instances raised
            /\ RunFailure("EC2ResponseError")
            /\ UNCHANGED <<launchers, backend>>
         \/ \E applied \in SUBSET DOMAIN _add_tags(launcher) :
              LET id == InstanceId(Len(backend) + 1)
                  instance == [id |-> id, launcher |-> run.i,
                               region |-> launcher.conf.region,
                               ami |-> launcher.conf.ami, kw |-> launcher.kw,
                               tags |-> [k \in applied |-> _add_tags(launcher)[k]]]
              IN  /\ backend' = Append(backend, instance)
                  /\ IF applied # DOMAIN _add_tags(launcher)
                     THEN \* an add_tag call raised
                          /\ RunFailure("EC2ResponseError")
                          /\ launchers' = launchers
                     ELSE /\ launchers' = [launchers EXCEPT ![run.i].instance =
                                             [id |-> id, launched |-> TRUE]]
                          /\ IF run.i < Len(launchers)
                             THEN /\ pc' = "run_loop"
                                  /\ run' = [run EXCEPT !.i = @ + 1]
                                  /\ result' = result
                             ELSE /\ pc' = "idle"
                                  /\ run' = run
                                  /\ result' = [type |-> "ok",
                                                op |-> "run_many_instances"]
  /\ UNCHANGED <<lists, wfs, queries, slept, many, confirm_input,
                 EC2_LAUNCH_CONFIGS, nOps, phase>>

\* Ec2LaunchInstance.wait_for_running_state_many(launchers, **kwargs), up to
\* the first launcher
WaitMany ==
  /\ pc = "idle"
  /\ UNCHANGED <<call, ret, env, keypairs>>
  /\ nOps < MaxOps
  /\ phase <= 3
  /\ phase' = 3
  /\ \E ref \in {"default", "arg"}, last_sleep_repeat \in 0..MaxRepeat,
        passed \in CallerIntervals \cup {lists.arg} :
       /\ lists' = IF ref = "arg" THEN [lists EXCEPT !.arg = passed] ELSE lists
       /\ many' = [active |-> launchers # <<>>, started |-> TRUE, i |-> 1,
                   ref |-> ref, last_sleep_repeat |-> last_sleep_repeat,
                   polled |-> {}, timed_out |-> {},
                   elapsed |-> 0, waits |-> <<>>]
  /\ IF launchers = <<>>
     THEN /\ pc' = "idle"
          /\ result' = [type |-> "ok", op |-> "wait_for_running_state_many"]
     ELSE /\ pc' = "many_loop"
          /\ result' = NoResult
  /\ nOps' = nOps + 1
  /\ wfs' = NoCall
  /\ queries' = <<>>
  /\ slept' = <<>>
  /\ UNCHANGED <<launchers, run, backend, confirm_input, EC2_LAUNCH_CONFIGS>>

\* for_launcher, going through the list from its end
for_launcher_reversed(ls, i) ==
  ls[Len(ls) + 1 - i]

\* the launcher of the i-th iteration of `for launcher in launchers`
for_launcher(ls, i) ==
  ls[i]

\* one iteration of wait_for_running_state_many:
\* wait_for_running_state(launcher.instance.id, **kwargs)
ManyNext ==
  /\ pc = "many_loop"
  /\ UNCHANGED <<call, ret, env, keypairs>>
  /\ LET launcher == for_launcher(launchers, many.i)
     IN  IF ~launcher.instance.launched
         THEN \* launcher.instance is None
              /\ pc' = "idle"
              /\ result' = [type |-> "AttributeError",
                            op |-> "wait_for_running_state_many"]
              /\ many' = [many EXCEPT !.active = FALSE]
              /\ UNCHANGED <<lists, wfs, queries, slept>>
         ELSE wait_for_state(launcher.instance.id, "running", many.ref,
                             lists[many.ref], many.last_sleep_repeat, "many", many)
  /\ UNCHANGED <<launchers, run, backend, confirm_input, EC2_LAUNCH_CONFIGS, nOps, phase>>

----------------------------------------------------------------------------
(* Specifications *)

\* a launch script: launchers are created, confirmed, launched and waited for,
\* in the order of the use case in the class docstring (a step may be left
\* out or repeated, none comes after a later one)
Next ==
  \/ NewLauncher
  \/ ConfirmMany
  \/ RunMany
  \/ RunInstance
  \/ WaitMany
  \/ ManyNext
  \/ Poll
  \/ Sleep

Spec ==
  Init /\ [][Next]_vars

\* a polling script: calls of wait_for_state one after the other
NextWait ==
  \/ CallWaitForState
  \/ Poll
  \/ Sleep

SpecWait ==
  Init /\ [][NextWait]_vars

\* a polling script in which every lookup and every time.sleep returns
SpecWaitFair ==
  SpecWait /\ WF_vars(Poll) /\ WF_vars(Sleep)

----------------------------------------------------------------------------
(* Single calls of the functions that only compute or look up *)

MaxIdentLen ==
  4

TagKeys ==
  {"Name", "Env", "tags"}

TagValues ==
  {"a", "b", "prod"}

\* every tag map over TagKeys
TagMaps ==
  UNION {[D -> TagValues] : D \in SUBSET TagKeys}

\* the tags arguments of the lookups by tag
TagvalueArgs ==
  {EmptyDict, "Name" :> "a"}

FnCalls ==
  {[fn |-> "get_all_tags", conf_tags |-> c, extra_tags |-> e] :
     c \in TagMaps, e \in TagMaps} \cup
  {[fn |-> "parse", s |-> s] : s \in SeqsUpTo(ParseChars, MaxIdentLen)} \cup
  {[fn |-> f, tags |-> t, region |-> r, answer |-> a] :
     f \in {"get_by_tagvalue", "get_exactly_one_by_tagvalue"},
     t \in TagvalueArgs, r \in RegionArgs, a \in DirectoryAnswers}

InitFn ==
  /\ InitState
  /\ call \in FnCalls
  /\ ret = NoRet
  /\ env = EmptyEnv
  /\ keypairs = NoKeypairs

\* launcher.get_all_tags() on a launcher with the given conf['tags'] and
\* extra_tags; the two dicts as they are after the call are part of the result
CallGetAllTags ==
  /\ call.fn = "get_all_tags"
  /\ ret = NoRet
  /\ LET launcher == [conf |-> [tags |-> call.conf_tags],
                      extra_tags |-> call.extra_tags]
     IN  ret' = [fn |-> "get_all_tags", tags |-> get_all_tags(launcher),
                 conf_tags |-> launcher.conf.tags,
                 extra_tags |-> launcher.extra_tags]
  /\ UNCHANGED <<pc, lists, wfs, queries, slept, result, many, launchers, run,
                 backend, confirm_input, EC2_LAUNCH_CONFIGS, nOps, phase, call,
                 env, keypairs>>

\* parse_instanceid(s) and parse_instancename(s), and the parse of the
\* parsed pair joined again
CallParse ==
  /\ call.fn = "parse"
  /\ ret = NoRet
  /\ LET byid == parse_instanceid(call.s)
         byname == parse_instancename(call.s)
     IN  ret' = [fn |-> "parse", instanceid |-> byid, instancename |-> byname,
                 id_again |-> parse_instanceid(Join(byid.region, byid.instanceid)),
                 name_again |-> parse_instancename(Join(byname.region, byname.instanceid))]
  /\ UNCHANGED <<pc, lists, wfs, queries, slept, result, many, launchers, run,
                 backend, confirm_input, EC2_LAUNCH_CONFIGS, nOps, phase, call,
                 env, keypairs>>

CallGetByTagvalue ==
  /\ call.fn = "get_by_tagvalue"
  /\ ret = NoRet
  /\ ret' = [fn |-> "get_by_tagvalue",
             r |-> get_by_tagvalue(call.tags, call.region, call.answer)]
  /\ UNCHANGED <<pc, lists, wfs, queries, slept, result, many, launchers, run,
                 backend, confirm_input, EC2_LAUNCH_CONFIGS, nOps, phase, call,
                 env, keypairs>>

CallGetExactlyOneByTagvalue ==
  /\ call.fn = "get_exactly_one_by_tagvalue"
  /\ ret = NoRet
  /\ ret' = [fn |-> "get_exactly_one_by_tagvalue",
             r |-> get_exactly_one_by_tagvalue(call.tags, call.region, call.answer)]
  /\ UNCHANGED <<pc, lists, wfs, queries, slept, result, many, launchers, run,
                 backend, confirm_input, EC2_LAUNCH_CONFIGS, nOps, phase, call,
                 env, keypairs>>

NextFn ==
  \/ CallGetAllTags
  \/ CallParse
  \/ CallGetByTagvalue
  \/ CallGetExactlyOneByTagvalue

SpecFn ==
  InitFn /\ [][NextFn]_vars

----------------------------------------------------------------------------
(* Ec2InstanceWrapper and fabric's env *)

MaxAdds ==
  3

EC2_INSTANCE_DEFAULT_SSHUSER ==
  <<"r">>

\* the home directory of the user and the working directory of the script
HOME ==
  <<"/", "h">>

CWD ==
  <<"/">>

Pem ==
  <<".", "p", "e", "m">>

\* os.path.expanduser: a leading ~ becomes the home directory
expanduser(path) ==
  IF path # <<>> /\ path[1] = "~" /\ (Len(path) = 1 \/ path[2] = "/")
  THEN HOME \o Tail(path)
  ELSE path

\* os.path.join of two components
join(a, b) ==
  IF b # <<>> /\ b[1] = "/" THEN b
  ELSE IF a = <<>> \/ a[Len(a)] = "/" THEN a \o b
  ELSE a \o <<"/">> \o b

\* os.path.abspath of a path without '.', '..' and doubled slashes: a
\* relative path is joined to the working directory
abspath(path) ==
  IF path # <<>> /\ path[1] = "/" THEN path ELSE join(CWD, path)

\* the boto instances that are wrapped: key pair name, host name, tags
EnvInstances ==
  {[key_name |-> k, public_dns_name |-> h, tags |-> t] :
     k \in {<<"k", "a">>, <<"k", "b">>},
     h \in {<<"h", "1">>, <<"h", "2">>},
     t \in {EmptyDict, "awsfab-ssh-user" :> <<"u">>}}

\* KEYPAIR_PATH settings and the .pem files that exist on disk
KeypairSettings ==
  {[KEYPAIR_PATH |-> path, exists |-> e] :
     path \in {<<<<"~">>, <<"/", "a", "/">>>>, <<<<"/", "a">>, <<"a">>>>},
     e \in SUBSET {HOME \o <<"/", "k", "a">> \o Pem,
                   <<"/", "a", "/", "k", "a">> \o Pem,
                   <<"/", "a", "/", "k", "b">> \o Pem}}

\* Ec2InstanceWrapper.get_ssh_uri
get_ssh_uri(self) ==
  LET user == IF "awsfab-ssh-user" \in DOMAIN self.tags
              THEN self.tags["awsfab-ssh-user"]
              ELSE EC2_INSTANCE_DEFAULT_SSHUSER
      host == self.public_dns_name
  IN  user \o <<"@">> \o host

\* Ec2InstanceWrapper.get_ssh_key_filename: the first file of the search
\* path that exists, or LookupError
get_ssh_key_filename(self) ==
  LET path == keypairs.KEYPAIR_PATH
      key_name == self.key_name \o Pem
      filename(n) == abspath(join(expanduser(path[n]), key_name))
      found == {n \in 1..Len(path) : filename(n) \in keypairs.exists}
  IN  IF found = {}
      THEN [raised |-> TRUE,
            exc |-> [type |-> "LookupError", op |-> "get_ssh_key_filename"]]
      ELSE [raised |-> FALSE,
            filename |-> filename(CHOOSE n \in found : \A m \in found : n <= m)]

\* the files listed in env.key_filename
Listed(e) ==
  {e.key_filename.list[n] : n \in 1..Len(e.key_filename.list)}

\* Ec2InstanceWrapper.add_instance_to_env
AddInstanceToEnv ==
  /\ pc = "idle"
  /\ nOps < MaxAdds
  /\ \E self \in EnvInstances :
       LET registered ==
             [has_ec2instances |-> TRUE,
              ec2instances |-> (get_ssh_uri(self) :> self) @@ env.ec2instances,
              key_filename |-> IF env.key_filename.none \/ env.key_filename.list = <<>>
                               THEN [none |-> FALSE, list |-> <<>>]
                               ELSE env.key_filename]
           key_filename == get_ssh_key_filename(self)
       IN  IF key_filename.raised
           THEN /\ env' = registered
                /\ result' = key_filename.exc
           ELSE /\ env' = IF key_filename.filename \in Listed(registered)
                          THEN registered
                          ELSE [registered EXCEPT !.key_filename.list =
                                  Append(@, key_filename.filename)]
                /\ result' = [type |-> "ok", op |-> "add_instance_to_env"]
  /\ nOps' = nOps + 1
  /\ UNCHANGED <<pc, lists, wfs, queries, slept, many, launchers, run, backend,
                 confirm_input, EC2_LAUNCH_CONFIGS, phase, call, ret, keypairs>>

InitEnv ==
  /\ InitState
  /\ call = NoFnCall
  /\ ret = NoRet
  /\ env = EmptyEnv
  /\ keypairs \in KeypairSettings

\* a script that adds instances to env, one call after the other
NextEnv ==
  AddInstanceToEnv

SpecEnv ==
  InitEnv /\ [][NextEnv]_vars

----------------------------------------------------------------------------
(* Properties of wait_for_state *)

\* rampIntervals followed by steadyRepeatCount copies of its last element
DurationSequence(rampIntervals, steadyRepeatCount) ==
  [i \in 1..(Len(rampIntervals) + steadyRepeatCount) |->
     IF i <= Len(rampIntervals) THEN rampIntervals[i]
     ELSE rampIntervals[Len(rampIntervals)]]

RECURSIVE Total(_)
Total(s) ==
  IF Len(s) = 0 THEN 0 ELSE Total(SubSeq(s, 1, Len(s) - 1)) + s[Len(s)]

\* the running or the last wait_for_state call has left its polling loop
CallOver ==
  wfs.entered /\ pc \notin {"poll", "sleep"}

\* the duration sequence the running or the last call polls
Polled ==
  lists[wfs.ref]

\* C1: when the target state is first observed on query k, wait_for_state
\* returns success after exactly k queries and the k-1 sleeps that are the
\* first k-1 durations of the sequence, in order (k = 1: one query, no sleep).
C1_MatchOnQueryK ==
  \A k \in 1..Len(queries) :
    queries[k].outcome = "match" =>
      /\ \A j \in 1..(k - 1) : queries[j].outcome = "nomatch"
      /\ CallOver
      /\ pc = "idle"
      /\ result = [type |-> "ok", op |-> "wait_for_state"]
      /\ Len(queries) = k
      /\ Len(slept) = k - 1
      /\ k <= Len(Polled)
      /\ slept = SubSeq(Polled, 1, k - 1)
      /\ (k = 1 => Total(slept) = 0)

C1_Witness ==
  /\ pc = "idle"
  /\ Len(queries) = 3
  /\ queries[3].outcome = "match"
  /\ slept = <<2, 7>>

\* C2: when every query returns a state other than the target,
\* wait_for_state makes exactly len(rampIntervals) + steadyRepeatCount queries
\* and then raises WaitForStateError with the target state and the sum of the
\* duration sequence computed before polling.
C2_TimeoutAfterAllQueries ==
  (CallOver /\ wfs.given # <<>>) =>
    /\ (\A j \in 1..Len(queries) : queries[j].outcome = "nomatch") =>
         /\ Len(queries) = Len(wfs.given) + wfs.last_sleep_repeat
         /\ result = WaitForStateError(wfs.state_name,
                       Total(DurationSequence(wfs.given, wfs.last_sleep_repeat)))
    /\ result.type = "WaitForStateError" =>
         /\ Len(queries) = Len(wfs.given) + wfs.last_sleep_repeat
         /\ \A j \in 1..Len(queries) : queries[j].outcome = "nomatch"

C2_Witness ==
  /\ pc = "idle"
  /\ result.type = "WaitForStateError"
  /\ wfs.given = <<2, 7>>
  /\ wfs.last_sleep_repeat = 2
  /\ Len(queries) = 4

\* C3: a sleep happens only between two queries: a wait that has ended has
\* slept less often than it has queried, and a wait that timed out after N
\* queries has slept exactly N-1 times.
C3_SleepOnlyBetweenQueries ==
  (CallOver /\ Len(queries) >= 1) =>
    /\ Len(slept) <= Len(queries) - 1
    /\ result.type = "WaitForStateError" => Len(slept) = Len(queries) - 1

\* C4: for a non-empty rampIntervals the sequence that is polled is
\* rampIntervals followed by steadyRepeatCount copies of its last element, of
\* length len(rampIntervals) + steadyRepeatCount, and its sum is the
\* max_wait_sec that is reported.
C4_DurationSequence ==
  (wfs.entered /\ wfs.given # <<>>) =>
    /\ Polled = DurationSequence(wfs.given, wfs.last_sleep_repeat)
    /\ Len(Polled) = Len(wfs.given) + wfs.last_sleep_repeat
    /\ Total(Polled) = wfs.max_wait_sec
    /\ Len(slept) <= Len(Polled)
    /\ slept = SubSeq(Polled, 1, Len(slept))

C4_Witness ==
  /\ pc = "sleep"
  /\ wfs.given = <<2, 7>>
  /\ wfs.last_sleep_repeat = 2
  /\ Polled = <<2, 7, 7, 7>>
  /\ wfs.max_wait_sec = 23
  /\ Len(slept) = 3

\* C5: a call leaves the interval list it was given and the default list
\* unchanged, so every call made with the default intervals and the same
\* repeat count polls the same duration sequence with the same max_wait_sec.
C5_PlanFreshPerCall ==
  /\ lists.default = DefaultSleepIntervals
  /\ wfs.entered => lists[wfs.ref] = wfs.given
  /\ (wfs.entered /\ wfs.ref = "default") =>
       /\ wfs.max_wait_sec =
            Total(DurationSequence(DefaultSleepIntervals, wfs.last_sleep_repeat))
       /\ Len(queries) <= Len(DefaultSleepIntervals) + wfs.last_sleep_repeat

\* C6: an empty rampIntervals is rejected with a configuration error before
\* any query and any sleep.
C6_EmptyRampRejected ==
  (wfs.entered /\ wfs.given = <<>>) =>
    /\ pc = "idle"
    /\ result.type = "ConfigurationError"
    /\ queries = <<>>
    /\ slept = <<>>

\* C7: a region connection failure on query k leaves wait_for_state at once
\* with that error: query k is the last query, only the k-1 sleeps before it
\* have happened, and the result is the error, not the wait timeout.
C7_HardErrorAborts ==
  \A k \in 1..Len(queries) :
    queries[k].outcome = "Ec2RegionConnectionError" =>
      /\ k = Len(queries)
      /\ Len(slept) = k - 1
      /\ pc = "idle"
      /\ result = [type |-> "Ec2RegionConnectionError", op |-> "get_by_instanceid",
                   region |-> queries[k].region]

C7_Witness ==
  /\ Len(queries) = 2
  /\ queries[2].outcome = "Ec2RegionConnectionError"
  /\ Len(slept) = 1

\* C8 as claimed: a query whose lookup finds no instance only fails to match,
\* and the wait goes on to a match or to the wait timeout.
C8_NotFoundKeepsPolling ==
  \A k \in 1..Len(queries) :
    queries[k].outcome = "LookupError" =>
      (pc = "idle" => result.type \in {"ok", "WaitForStateError"})

\* C8 amended: a query whose lookup finds no instance raises LookupError out
\* of wait_for_state at once: it is the last query, no sleep follows it and
\* no wait timeout is raised.
C8_NotFoundAborts ==
  \A k \in 1..Len(queries) :
    queries[k].outcome = "LookupError" =>
      /\ k = Len(queries)
      /\ Len(slept) = k - 1
      /\ pc = "idle"
      /\ result = [type |-> "LookupError", op |-> "get_by_instanceid"]

C8_Witness ==
  /\ Len(queries) = 2
  /\ queries[1].outcome = "nomatch"
  /\ queries[2].outcome = "LookupError"
  /\ result.type = "LookupError"

----------------------------------------------------------------------------
(* Properties of the batch operations *)

\* wait_for_running_state_many has been called and has returned or raised
BatchOver ==
  many.started /\ ~many.active /\ pc = "idle"

\* C9 as claimed: when the wait on instance i times out, every instance
\* after i is still polled.
C9_TimeoutDoesNotCancel ==
  BatchOver =>
    \A i \in many.timed_out :
      \A j \in (i + 1)..Len(launchers) : j \in many.polled

\* C9 amended: when the wait on instance i times out, the error leaves
\* wait_for_running_state_many and no instance after i is polled.
C9_TimeoutCancelsRest ==
  \A i \in many.timed_out :
    /\ BatchOver
    /\ many.i = i
    /\ result.type = "WaitForStateError"
    /\ \A j \in (i + 1)..Len(launchers) : j \notin many.polled

C9_Witness ==
  /\ BatchOver
  /\ Len(launchers) = 2
  /\ launchers[2].instance.launched
  /\ many.timed_out = {1}
  /\ many.polled = {1}

Affirmative ==
  {<<"y">>, <<"Y">>}

\* C10: an answer to confirm_many other than "y" or "Y" aborts the script
\* with no instance launched, and only "y" and "Y" let it go on.
C10_ConfirmGatesLaunch ==
  confirm_input.asked =>
    IF confirm_input.line \in Affirmative
    THEN ~(pc = "aborted" /\ result.op = "_confirm")
    ELSE /\ pc = "aborted"
         /\ result = SystemExit("_confirm")
         /\ backend = <<>>

C10_Witness ==
  /\ confirm_input.asked
  /\ confirm_input.line = <<"y", "e", "s">>
  /\ pc = "aborted"
  /\ Len(launchers) = 2


\* the launch calls of the running or the last run_many_instances, in order
Launched ==
  SubSeq(backend, run.base + 1, Len(backend))

\* C11: run_many_instances launches in input order, one launch call per
\* request; when launching request i fails the error leaves
\* run_many_instances, the requests before i stay launched with their
\* instances recorded, and no launch call is made for a request after i.
C11_NoRollbackNoContinue ==
  /\ \A k \in 1..Len(Launched) : Launched[k].launcher = k
  /\ result.op = "run_instance" =>
       /\ pc = "idle"
       /\ result.i = run.i
       /\ result.type \in {"AttributeError", "EC2ResponseError"}
       /\ Len(Launched) \in {result.i - 1, result.i}
       /\ \A j \in 1..(result.i - 1) :
            launchers[j].instance = [id |-> Launched[j].id, launched |-> TRUE]

C11_Witness ==
  /\ result.op = "run_instance"
  /\ result.i = 2
  /\ Len(Launched) = 1
  /\ launchers[1].instance.launched
  /\ ~launchers[2].instance.launched


\* C12: after run_instance has returned, the tags on the launched instance
\* are exactly the merged tags of get_all_tags.
C12_TagsApplied ==
  \A i \in 1..Len(launchers) :
    launchers[i].instance.launched =>
      \A k \in 1..Len(backend) :
        backend[k].id = launchers[i].instance.id =>
          backend[k].tags = get_all_tags(launchers[i])

\* C13: the result of get_all_tags has the union of both key sets, a key of
\* the extra tags maps to the extra value, any other key to the
\* configuration's value, and neither dict is changed by the call.
C13_ExtraTagsOverwrite ==
  ret.fn = "get_all_tags" =>
    /\ DOMAIN ret.tags = DOMAIN call.conf_tags \cup DOMAIN call.extra_tags
    /\ \A k \in DOMAIN call.extra_tags : ret.tags[k] = call.extra_tags[k]
    /\ \A k \in DOMAIN call.conf_tags \ DOMAIN call.extra_tags :
         ret.tags[k] = call.conf_tags[k]
    /\ ret.conf_tags = call.conf_tags
    /\ ret.extra_tags = call.extra_tags
    /\ (call.conf_tags = ("Name" :> "a" @@ "Env" :> "prod")
          /\ call.extra_tags = ("Name" :> "b")) =>
         ret.tags = ("Name" :> "b" @@ "Env" :> "prod")

C13_Witness ==
  /\ ret.fn = "get_all_tags"
  /\ call.conf_tags = ("Name" :> "a" @@ "Env" :> "prod")
  /\ call.extra_tags = ("Name" :> "b")
  /\ ret.tags["Name"] = "b"

\* the parsed pair p of the string s: split at the first ':' only, or the
\* whole string with the default region
SplitAtFirstColon(s, p) ==
  /\ HasColon(s) => /\ ~HasColon(p.region)
                    /\ Join(p.region, p.instanceid) = s
  /\ ~HasColon(s) => /\ p.region = DEFAULT_REGION
                     /\ p.instanceid = s

\* C14: parse_instanceid and parse_instancename split on the first ':' only,
\* fill in the default region when there is none, and parsing the joined
\* pair again gives the same pair when the region holds no ':'.
C14_SplitOnFirstColon ==
  ret.fn = "parse" =>
    /\ SplitAtFirstColon(call.s, ret.instanceid)
    /\ SplitAtFirstColon(call.s, ret.instancename)
    /\ ~HasColon(ret.instanceid.region) => ret.id_again = ret.instanceid
    /\ ~HasColon(ret.instancename.region) => ret.name_again = ret.instancename

C14_Witness ==
  /\ ret.fn = "parse"
  /\ call.s = <<"e", ":", "i", ":">>
  /\ ret.instanceid = [region |-> <<"e">>, instanceid |-> <<"i", ":">>]
  /\ ret.id_again = ret.instanceid

\* C15: get_by_tagvalue never returns an empty list, and
\* get_exactly_one_by_tagvalue returns an instance only when the reservations
\* of the answer hold exactly one instance.
C15_NoMatchIsLookupFailure ==
  /\ (ret.fn = "get_by_tagvalue" /\ ~ret.r.raised) =>
       Len(ret.r.instances) >= 1
  /\ (ret.fn = "get_exactly_one_by_tagvalue" /\ ~ret.r.raised) =>
       Len(insts(call.answer.reservations)) = 1

\* the conf and kw attributes of a launcher are those of a registered
\* configuration
Registered(launcher) ==
  \E n \in DOMAIN EC2_LAUNCH_CONFIGS :
    /\ launcher.conf = EC2_LAUNCH_CONFIGS[n]
    /\ launcher.kw.key_name = launcher.conf.key_name
    /\ launcher.kw.instance_type = launcher.conf.instance_type
    /\ launcher.kw.security_groups = launcher.conf.security_groups

\* the step is a construction of an Ec2LaunchInstance
Constructs ==
  /\ nOps' = nOps + 1
  /\ result'.op \in {"__init__", "_configure"}

\* C16: constructing a launcher with an empty registry aborts without asking
\* for a name, constructing it with a name that is not registered aborts,
\* nothing is launched or looked up by a construction, and every launcher
\* that exists holds a registered configuration.
C16_ConfigurationFailsFast ==
  [][/\ \A i \in 1..Len(launchers') : Registered(launchers'[i])
     /\ Constructs =>
          /\ backend' = backend
          /\ queries' = <<>>
          /\ EC2_LAUNCH_CONFIGS = EmptyDict =>
               /\ result'.type = "SystemExit"
               /\ result'.op = "__init__"
               /\ ~result'.asked
          /\ result'.configname \notin DOMAIN EC2_LAUNCH_CONFIGS =>
               result'.type = "SystemExit"
          /\ result'.type = "SystemExit" =>
               /\ pc' = "aborted"
               /\ launchers' = launchers
          /\ result'.type = "ok" =>
               /\ Len(launchers') = Len(launchers) + 1
               /\ launchers'[Len(launchers')].conf =
                    EC2_LAUNCH_CONFIGS[result'.configname]]_vars

C16_Witness ==
  /\ pc = "aborted"
  /\ result.op = "_configure"
  /\ result.asked
  /\ result.configname = <<"x">>
  /\ Len(launchers) = 1

\* C17: in a batch the queries of a wait all go to the launcher whose turn it
\* is, in list order; a launcher is polled only after the waits for all
\* launchers before it have ended, and the time slept by the batch is the
\* sum of the times slept in the waits for each launcher.
C17_OneAtATimeInOrder ==
  many.started =>
    /\ many.polled \subseteq 1..many.i
    /\ \A j \in many.polled : j <= Len(many.waits) + 1
    /\ many.active => Len(many.waits) = many.i - 1
    /\ (wfs.caller = "many" /\ pc \in {"poll", "sleep"}) =>
         \A k \in 1..Len(queries) :
           queries[k].instanceid = launchers[many.i].instance.id
    /\ many.elapsed = sum(many.waits) +
                      (IF pc \in {"poll", "sleep"} THEN sum(slept) ELSE 0)

C17_Witness ==
  /\ BatchOver
  /\ many.polled = {1, 2}
  /\ Len(many.waits) = 2
  /\ many.waits[1] > 0
  /\ many.waits[2] > 0
  /\ many.elapsed = many.waits[1] + many.waits[2]

\* the running or the last wait_for_state call has made no more queries
\* than its duration sequence is long and has slept no longer than
\* max_wait_sec
WithinBudget ==
  wfs.entered =>
    /\ Len(queries) <= Len(wfs.given) + wfs.last_sleep_repeat
    /\ sum(slept) <= wfs.max_wait_sec

\* C18: a call of wait_for_state whose polling loop has started leaves the
\* loop, with success, WaitForStateError or the exception of a lookup; it
\* makes at most len(sleep_intervals) + last_sleep_repeat queries and sleeps
\* at most max_wait_sec seconds in all.
C18_WaitTerminates ==
  /\ []WithinBudget
  /\ pc \in {"poll", "sleep"} ~>
       /\ pc = "idle"
       /\ result.type \in {"ok", "WaitForStateError", "LookupError",
                            "Ec2RegionConnectionError"}

C18_Witness ==
  /\ CallOver
  /\ result.type = "WaitForStateError"
  /\ Len(queries) = Len(wfs.given) + wfs.last_sleep_repeat
  /\ Len(queries) = 4
  /\ sum(slept) = wfs.max_wait_sec

CreatedBy(i) ==
  {k \in 1..Len(backend) : backend[k].launcher = i}

\* C20: a launcher for which a launch call has created an instance holds the
\* instance created last in its instance attribute, also when an add_tag
\* call failed, and the attribute is None exactly when no launch call has
\* created an instance for it.
C20_LaunchedIsRecorded ==
  \A i \in 1..Len(launchers) :
    /\ ~launchers[i].instance.launched <=> CreatedBy(i) = {}
    /\ CreatedBy(i) # {} =>
         \E k \in CreatedBy(i) :
           /\ \A j \in CreatedBy(i) : j <= k
           /\ launchers[i].instance.id = backend[k].id

\* every instance registered in e has its key file listed in e, and no file
\* is listed twice
KeysRegistered(e) ==
  /\ \A uri \in DOMAIN e.ec2instances :
       /\ ~get_ssh_key_filename(e.ec2instances[uri]).raised
       /\ get_ssh_key_filename(e.ec2instances[uri]).filename \in Listed(e)
  /\ \A n, m \in 1..Len(e.key_filename.list) :
       e.key_filename.list[n] = e.key_filename.list[m] => n = m

\* C21: after every call of add_instance_to_env each registered instance has
\* its key file in env.key_filename, no file is listed twice, and a call that
\* fails with LookupError leaves env as it was.
C21_EnvConsistent ==
  [][/\ KeysRegistered(env')
     /\ (nOps' = nOps + 1 /\ result'.type = "LookupError") => env' = env]_vars

====
